---- MODULE Spec2Model ----
(***************************************************************************)
(* django-skd-smoke: configuration validation (prepare_configuration),     *)
(* construction-time test synthesis (GenerateTestMethodsMeta.__new__) and  *)
(* the run of one generated test method (new_test_method).                 *)
(*                                                                         *)
(* Python values are modelled by records [t, s, n, items]: t is the type   *)
(* tag, s the text (a sequence of characters / literal pieces), n the      *)
(* integer, items the (key, value) pairs of a dict in insertion order.     *)
(* A configuration entry is [t, elems], a configuration [t, entries].      *)
(***************************************************************************)
EXTENDS Integers, Sequences, FiniteSets, TLC

VARIABLES conf, conf0, result, calls,
          classes, uuidCtr, lastDef,
          cur, pc, trace, outcome

vars == <<conf, conf0, result, calls, classes, uuidCtr, lastDef,
          cur, pc, trace, outcome>>

confVars == <<conf, conf0, result, calls>>
hookVars == <<classes, uuidCtr, lastDef>>
runVars == <<cur, pc, trace, outcome>>

\* ---------------------------------------------------------------- bounds
MaxEntries == 2
MaxOptions == 2
MaxCalls == 2
MaxClasses == 2

\* ---------------------------------------------------------------- values
VStr(s) == [t |-> "str", s |-> s, n |-> 0, items |-> <<>>]
VInt(n) == [t |-> "int", s |-> <<>>, n |-> n, items |-> <<>>]
VNone == [t |-> "none", s |-> <<>>, n |-> 0, items |-> <<>>]
VDict(items) == [t |-> "dict", s |-> <<>>, n |-> 0, items |-> items]
\* a function object: callable, carries __name__
VFunc(name) == [t |-> "func", s |-> name, n |-> 0, items |-> <<>>]
\* an instance with __call__ (or a functools.partial): callable, no __name__
VCallObj == [t |-> "callobj", s |-> <<>>, n |-> 0, items |-> <<>>]

Entry(t, elems) == [t |-> t, elems |-> elems]
Config(t, entries) == [t |-> t, entries |-> entries]

\* builtin callable()
Callable(v) == v.t \in {"func", "callobj"}

\* truth value of a Python object
Truthy(v) ==
    CASE v.t = "none" -> FALSE
      [] v.t = "dict" -> v.items # <<>>
      [] v.t = "str" -> v.s # <<>>
      [] v.t = "int" -> v.n # 0
      [] OTHER -> TRUE

\* str.lower() on the alphabet the model uses
LowerChar(c) ==
    CASE c = "G" -> "g" [] c = "E" -> "e" [] c = "T" -> "t"
      [] c = "X" -> "x" [] c = "Y" -> "y" [] c = "Z" -> "z"
      [] OTHER -> c

Lower(s) == [i \in 1..Len(s) |-> LowerChar(s[i])]

\* ---------------------------------------------------------------- constants
IMPROPERLY_BUILT_CONFIGURATION_MSG == "IMPROPERLY_BUILT_CONFIGURATION_MSG"
EMPTY_TEST_CONFIGURATION_MSG == "EMPTY_TEST_CONFIGURATION_MSG"
INCORRECT_TEST_CONFIGURATION_MSG == "INCORRECT_TEST_CONFIGURATION_MSG"
UNSUPPORTED_CONFIGURATION_KEY_MSG == "UNSUPPORTED_CONFIGURATION_KEY_MSG"
INCORRECT_REQUIRED_PARAM_TYPE_MSG == "INCORRECT_REQUIRED_PARAM_TYPE_MSG"
INCORRECT_NOT_REQUIRED_PARAM_TYPE_MSG == "INCORRECT_NOT_REQUIRED_PARAM_TYPE_MSG"
UNKNOWN_HTTP_METHOD_MSG == "UNKNOWN_HTTP_METHOD_MSG"
LINK_TO_DOCUMENTATION == "LINK_TO_DOCUMENTATION"

\* one formatted message: the template and the values substituted into it
Msg(id, param, idx, keys, val) ==
    [id |-> id, param |-> param, idx |-> idx, keys |-> keys, val |-> val]

PlainMsg(id) == Msg(id, "", 0, {}, VNone)

REQUIRED_PARAMS ==
    << [display_name |-> "url", expected_type |-> "str"],
       [display_name |-> "status", expected_type |-> "int"],
       [display_name |-> "method", expected_type |-> "str"] >>

dict_or_callable(d) == d.t = "dict" \/ Callable(d)

OptionNames == {"initialize", "url_kwargs", "request_data", "user_credentials"}

\* variant: every option checked with dict_or_callable
MutCheckAllDictOrCallable(key, v) == dict_or_callable(v)

\* NOT_REQUIRED_PARAM_TYPE_CHECK[key]['func'](v)
NOT_REQUIRED_PARAM_TYPE_CHECK(key, v) ==
    IF key = "initialize" THEN Callable(v) ELSE dict_or_callable(v)

HTTP_METHODS ==
    { <<"g","e","t">>, <<"p","o","s","t">>, <<"h","e","a","d">>,
      <<"o","p","t","i","o","n","s">>, <<"p","u","t">>,
      <<"p","a","t","c","h">>, <<"d","e","t","e","t","e">>,
      <<"t","r","a","c","e">> }

\* the request callables of the test client used by new_test_method
ClientMethods ==
    { <<"g","e","t">>, <<"p","o","s","t">>, <<"h","e","a","d">>,
      <<"o","p","t","i","o","n","s">>, <<"p","u","t">>,
      <<"p","a","t","c","h">>, <<"d","e","l","e","t","e">>,
      <<"t","r","a","c","e">> }

\* variant: the message without the documentation link
MutNoDocLink(error_message) == <<error_message>>

append_doc_link(error_message) == <<error_message, PlainMsg(LINK_TO_DOCUMENTATION)>>

\* ---------------------------------------------------------------- prepare_configuration
\* isinstance(v, expected_type)
IsInstance(v, expected_type) == v.t = expected_type

\* len() is defined on tuples, lists and strings
HasLen(e) == e.t \in {"tuple", "list", "str"}

Keys(d) == {d.items[j][1] : j \in 1..Len(d.items)}

RECURSIVE RequiredErrorsFrom(_, _)
\* the loop "for idx, required_param in enumerate(test_config[:3])"
RequiredErrorsFrom(tc, i) ==
    IF i > 3 THEN <<>>
    ELSE LET required_type == REQUIRED_PARAMS[i].expected_type
             here == IF ~IsInstance(tc[i], required_type)
                     THEN << Msg(INCORRECT_REQUIRED_PARAM_TYPE_MSG,
                                 REQUIRED_PARAMS[i].display_name, i - 1, {}, tc[i]) >>
                     ELSE <<>>
         IN here \o RequiredErrorsFrom(tc, i + 1)

MethodErrors(tc) ==
    LET http_method == tc[3]
    IN IF IsInstance(http_method, REQUIRED_PARAMS[3].expected_type)
          /\ Lower(http_method.s) \notin HTTP_METHODS
       THEN << Msg(UNKNOWN_HTTP_METHOD_MSG, "", 0, {}, http_method) >>
       ELSE <<>>

RECURSIVE OptionErrorsFrom(_, _)
\* the loop "for key, value in test_config[3].items()"
OptionErrorsFrom(items, j) ==
    IF j > Len(items) THEN <<>>
    ELSE LET key == items[j][1]
             value == items[j][2]
             here == IF ~NOT_REQUIRED_PARAM_TYPE_CHECK(key, value)
                     THEN << Msg(INCORRECT_NOT_REQUIRED_PARAM_TYPE_MSG,
                                 key, 0, {}, value) >>
                     ELSE <<>>
         IN here \o OptionErrorsFrom(items, j + 1)

\* variant: validation stops at the first type error of the entry
MutFirstErrorOnly(tc, check_dict) ==
    LET all == RequiredErrorsFrom(tc, 1) \o MethodErrors(tc)
               \o (IF check_dict THEN OptionErrorsFrom(tc[4].items, 1) ELSE <<>>)
    IN IF all = <<>> THEN <<>> ELSE <<all[1]>>

\* type_errors of one normalized entry, lines 111-137
TypeErrors(tc, check_dict) ==
    RequiredErrorsFrom(tc, 1) \o MethodErrors(tc)
       \o (IF check_dict THEN OptionErrorsFrom(tc[4].items, 1) ELSE <<>>)

Raise(exc, lines, after) ==
    [exc |-> exc, lines |-> lines, tc |-> <<>>, after |-> after]

\* the body of the loop over tests_configuration for one entry, lines 94-143.
\* exc is the exception raised ("none": the entry was appended to confs),
\* tc the entry as appended, after the entry object as the call leaves it.
CheckEntry(e) ==
    IF ~HasLen(e) THEN Raise("TypeError", <<>>, e)          \* len(test_config)
    ELSE IF Len(e.elems) = 3 THEN
        \* test_config += ({},): a new tuple, an in-place extend of a list,
        \* a TypeError on any other sized object
        IF e.t = "str" THEN Raise("TypeError", <<>>, e)
        ELSE LET tc == e.elems \o << VDict(<<>>) >>
                 after == IF e.t = "list" THEN Entry("list", tc) ELSE e
                 errs == TypeErrors(tc, FALSE)
             IN IF errs # <<>>
                THEN Raise("ImproperlyConfigured",
                           errs \o <<PlainMsg(LINK_TO_DOCUMENTATION)>>, after)
                ELSE [exc |-> "none", lines |-> <<>>, tc |-> tc, after |-> after]
    ELSE IF Len(e.elems) = 4 THEN
        \* test_config[3].keys()
        IF e.elems[4].t # "dict" THEN Raise("AttributeError", <<>>, e)
        ELSE LET diff == Keys(e.elems[4]) \ OptionNames
                 errs == TypeErrors(e.elems, TRUE)
             IN IF diff # {}
                THEN Raise("ImproperlyConfigured",
                           append_doc_link(Msg(UNSUPPORTED_CONFIGURATION_KEY_MSG,
                                               "", 0, diff, VNone)), e)
                ELSE IF errs # <<>>
                THEN Raise("ImproperlyConfigured",
                           errs \o <<PlainMsg(LINK_TO_DOCUMENTATION)>>, e)
                ELSE [exc |-> "none", lines |-> <<>>, tc |-> e.elems, after |-> e]
    ELSE Raise("ImproperlyConfigured",
               append_doc_link(PlainMsg(IMPROPERLY_BUILT_CONFIGURATION_MSG)), e)

RECURSIVE PrepareFrom(_, _, _)
\* "for test_config in tests_configuration" from entry i on, with confs so far
PrepareFrom(c, i, confs) ==
    IF i > Len(c.entries)
    THEN IF confs = <<>>
         THEN [exc |-> "ImproperlyConfigured",
               lines |-> append_doc_link(PlainMsg(EMPTY_TEST_CONFIGURATION_MSG)),
               confs |-> <<>>, arg |-> c]
         ELSE [exc |-> "none", lines |-> <<>>, confs |-> confs, arg |-> c]
    ELSE LET r == CheckEntry(c.entries[i])
             c2 == [c EXCEPT !.entries[i] = r.after]
         IN IF r.exc # "none"
            THEN [exc |-> r.exc, lines |-> r.lines, confs |-> <<>>, arg |-> c2]
            ELSE PrepareFrom(c2, i + 1, Append(confs, r.tc))

\* prepare_configuration(tests_configuration): exc/lines describe the raised
\* exception, confs the returned list, arg the argument object after the call
prepare_configuration(c) ==
    IF c.t \in {"tuple", "list"}
    THEN PrepareFrom(c, 1, <<>>)
    ELSE [exc |-> "ImproperlyConfigured",
          lines |-> append_doc_link(PlainMsg(INCORRECT_TEST_CONFIGURATION_MSG)),
          confs |-> <<>>, arg |-> c]

\* ---------------------------------------------------------------- inputs
URL == <<"/","n",":","u","/">>
GET == <<"g","e","t">>
GETU == <<"G","E","T">>
POST == <<"p","o","s","t">>
DELETE == <<"d","e","l","e","t","e">>
DETETE == <<"d","e","t","e","t","e">>
XYZ == <<"X","Y","Z">>

DictN == VDict(<< <<"k", VInt(1)>> >>)
Fn == VFunc(<<"f">>)

T3(u, st, m) == Entry("tuple", <<u, st, m>>)
T4(u, st, m, o) == Entry("tuple", <<u, st, m, o>>)

\* entries combined into configurations of several entries
CorePool ==
    { T3(VStr(URL), VInt(200), VStr(GET)),
      Entry("list", <<VStr(URL), VInt(200), VStr(GETU)>>),
      T4(VStr(URL), VInt(200), VStr(POST),
         VDict(<< <<"initialize", Fn>>, <<"user_credentials", DictN>> >>)),
      T4(VStr(URL), VInt(200), VStr(GET), VDict(<< <<"request_data", VCallObj>> >>)),
      T3(VStr(URL), VInt(200), VStr(DELETE)),
      T3(VStr(URL), VInt(200), VStr(DETETE)),
      T4(VInt(200), VStr(<<"x">>), VInt(5), VDict(<< <<"url_kwargs", VInt(1)>> >>)),
      T4(VStr(URL), VInt(200), VStr(GET), VDict(<< <<"bogus", VInt(1)>> >>)),
      Entry("tuple", <<VStr(URL), VInt(200)>>),
      Entry("int", <<>>),
      Entry("str", <<VStr(<<"a">>), VStr(<<"b">>), VStr(<<"c">>)>>),
      Entry("str", <<VStr(<<"a">>), VStr(<<"b">>), VStr(<<"c">>), VStr(<<"d">>)>>),
      T4(VStr(URL), VInt(200), VStr(GET), VInt(5)),
      Entry("list", <<VStr(URL), VStr(<<"x">>), VStr(GET)>>) }

SeqsUpTo(S, n) == UNION {[1..k -> S] : k \in 0..n}

OptVals == {VDict(<<>>), DictN, Fn, VCallObj, VInt(1)}

\* option mappings with up to MaxOptions recognized keys
OptionDicts ==
    { VDict(items) : items \in
        { q \in SeqsUpTo(OptionNames \X OptVals, MaxOptions) :
            \A i, j \in 1..Len(q) : i # j => q[i][1] # q[j][1] } }

\* single entries over every combination of field types and options
EntryGrid ==
    { T3(u, st, m) :
        u \in {VStr(URL), VInt(1)}, st \in {VInt(200), VStr(<<"x">>)},
        m \in {VStr(GET), VStr(GETU), VStr(XYZ), VStr(DELETE), VInt(5), VNone} }
    \cup
    { T4(u, st, m, o) :
        u \in {VStr(URL), VInt(1)}, st \in {VInt(200), VStr(<<"x">>)},
        m \in {VStr(GET), VStr(XYZ), VInt(5)}, o \in OptionDicts }

Configs ==
    { Config(t, <<>>) : t \in {"none", "str", "dict"} }
    \cup { Config(t, es) : t \in {"tuple", "list"}, es \in SeqsUpTo(CorePool, MaxEntries) }
    \cup { Config("list", <<e>>) : e \in EntryGrid }

NoOutcome == [cls |-> 0, exc |-> "none", msg |-> [exc |-> "none", lines |-> <<>>]]

NotCalled == [exc |-> "notcalled", lines |-> <<>>, confs |-> <<>>, arg |-> Config("none", <<>>)]

\* ---------------------------------------------------------------- validation alone
InitConf ==
    /\ conf \in Configs
    /\ conf0 = conf
    /\ result = NotCalled
    /\ calls = 0
    /\ classes = <<>> /\ uuidCtr = 0 /\ lastDef = "none"
    /\ cur = <<>> /\ pc = "idle" /\ trace = <<>> /\ outcome = NoOutcome

\* one call prepare_configuration(conf); conf0 keeps the argument as passed
CallPrepare ==
    /\ calls < MaxCalls
    /\ result' = prepare_configuration(conf)
    /\ conf0' = conf
    /\ conf' = result'.arg
    /\ calls' = calls + 1
    /\ UNCHANGED <<hookVars, runVars>>

NextConf == CallPrepare

SpecConf == InitConf /\ [][NextConf]_vars

\* ---------------------------------------------------------------- properties of validation
SeqConf(c) == c.t \in {"tuple", "list"}

\* an entry that is a tuple or list of 3 or 4 elements whose options, when
\* given, are a mapping with recognized keys only
WellFormed(e) ==
    /\ e.t \in {"tuple", "list"}
    /\ Len(e.elems) \in {3, 4}
    /\ Len(e.elems) = 4 => /\ e.elems[4].t = "dict"
                           /\ Keys(e.elems[4]) \subseteq OptionNames

AcceptedKinds(key) ==
    IF key = "initialize" THEN {"func", "callobj"} ELSE {"dict", "func", "callobj"}

\* the type problems of a well-formed entry, one message each
Problems(e) ==
    LET el == e.elems
        opts == IF Len(el) = 4 THEN el[4].items ELSE <<>>
    IN  (IF el[1].t # "str"
         THEN {Msg(INCORRECT_REQUIRED_PARAM_TYPE_MSG, "url", 0, {}, el[1])} ELSE {})
        \cup
        (IF el[2].t # "int"
         THEN {Msg(INCORRECT_REQUIRED_PARAM_TYPE_MSG, "status", 1, {}, el[2])} ELSE {})
        \cup
        (IF el[3].t # "str"
         THEN {Msg(INCORRECT_REQUIRED_PARAM_TYPE_MSG, "method", 2, {}, el[3])} ELSE {})
        \cup
        (IF el[3].t = "str" /\ Lower(el[3].s) \notin HTTP_METHODS
         THEN {Msg(UNKNOWN_HTTP_METHOD_MSG, "", 0, {}, el[3])} ELSE {})
        \cup
        { Msg(INCORRECT_NOT_REQUIRED_PARAM_TYPE_MSG, opts[j][1], 0, {}, opts[j][2]) :
            j \in {k \in 1..Len(opts) : opts[k][2].t \notin AcceptedKinds(opts[k][1])} }

Clean(e) == WellFormed(e) /\ Problems(e) = {}

\* validation gets as far as entry i: every entry before it is valid
Reached(c, i) == \A j \in 1..(i - 1) : Clean(c.entries[j])

WrongLength(e) == HasLen(e) /\ Len(e.elems) \notin {3, 4}

ImproperlyBuilt ==
    /\ result.exc = "ImproperlyConfigured"
    /\ result.lines = << PlainMsg(IMPROPERLY_BUILT_CONFIGURATION_MSG),
                         PlainMsg(LINK_TO_DOCUMENTATION) >>

\* C4: whenever prepare_configuration fails, the exception raised is
\* ImproperlyConfigured and never another exception type.
C4_OnlyImproperlyConfigured ==
    result.exc \in {"notcalled", "none", "ImproperlyConfigured"}

\* C5: after a call of prepare_configuration, returning or raising, the
\* argument and every entry in it are as they were before the call.
C5_ArgumentUntouched ==
    calls > 0 => conf = conf0

\* every entry has four elements, valid url, status and method, and options
\* with recognized keys only
OtherwiseValid4(c) ==
    /\ SeqConf(c) /\ c.entries # <<>>
    /\ \A i \in 1..Len(c.entries) :
         LET e == c.entries[i]
         IN /\ WellFormed(e) /\ Len(e.elems) = 4
            /\ e.elems[1].t = "str" /\ e.elems[2].t = "int"
            /\ e.elems[3].t = "str" /\ Lower(e.elems[3].s) \in HTTP_METHODS

OptionValues(c) ==
    UNION { { c.entries[i].elems[4].items[j] : j \in 1..Len(c.entries[i].elems[4].items) } :
            i \in 1..Len(c.entries) }

\* C6 as stated: for each of the four option names a value is accepted
\* exactly when it is a mapping or a callable.
C6_MappingOrCallableForAll ==
    (calls > 0 /\ OtherwiseValid4(conf0)) =>
        (result.exc = "none" <=>
            \A kv \in OptionValues(conf0) : kv[2].t \in {"dict", "func", "callobj"})

\* C6 amended: url_kwargs, request_data and user_credentials are accepted
\* exactly when the value is a mapping or a callable; initialize is accepted
\* exactly when the value is a callable.
C6_PredicatePerOption ==
    (calls > 0 /\ OtherwiseValid4(conf0)) =>
        (result.exc = "none" <=>
            \A kv \in OptionValues(conf0) : kv[2].t \in AcceptedKinds(kv[1]))

C6_Witness ==
    /\ calls > 0 /\ OtherwiseValid4(conf0)
    /\ \E kv \in OptionValues(conf0) : kv[1] = "initialize" /\ kv[2].t = "dict"
    /\ \E kv \in OptionValues(conf0) : kv[1] = "url_kwargs" /\ kv[2].t = "dict"
    /\ result.exc = "ImproperlyConfigured"

\* C7: when the entry validation has reached is well formed and has k >= 1
\* type problems, validation fails with one error of exactly k message
\* lines, one per problem, followed by the documentation link.
C7_OneLinePerProblem ==
    (calls > 0 /\ SeqConf(conf0)) =>
        \A i \in 1..Len(conf0.entries) :
            LET e == conf0.entries[i]
                k == Cardinality(Problems(e))
            IN (Reached(conf0, i) /\ WellFormed(e) /\ Problems(e) # {}) =>
                  /\ result.exc = "ImproperlyConfigured"
                  /\ Len(result.lines) = k + 1
                  /\ {result.lines[j] : j \in 1..k} = Problems(e)
                  /\ result.lines[k + 1] = PlainMsg(LINK_TO_DOCUMENTATION)

C7_Witness ==
    /\ calls > 0 /\ SeqConf(conf0) /\ Len(conf0.entries) = 1
    /\ WellFormed(conf0.entries[1])
    /\ Cardinality(Problems(conf0.entries[1])) >= 4
    /\ Len(result.lines) >= 5

\* every entry is a tuple or a list whose options, when given, are a mapping
PlainEntries(c) ==
    \A i \in 1..Len(c.entries) :
        LET e == c.entries[i]
        IN e.t \in {"tuple", "list"} /\ (Len(e.elems) = 4 => e.elems[4].t = "dict")

\* C8 as stated (on configurations of tuples and lists): a configuration with
\* an entry of length other than 3 or 4, at any position and whatever the
\* other entries are, fails with the improperly-built message and the link.
C8_WrongLengthAnywhere ==
    (calls > 0 /\ SeqConf(conf0) /\ PlainEntries(conf0)
       /\ \E i \in 1..Len(conf0.entries) : WrongLength(conf0.entries[i]))
    => ImproperlyBuilt

\* C8 amended: when every entry before the entry of length other than 3 or
\* 4 is valid, validation fails with the improperly-built message and the link.
C8_WrongLengthReached ==
    (calls > 0 /\ SeqConf(conf0)
       /\ \E i \in 1..Len(conf0.entries) :
             Reached(conf0, i) /\ WrongLength(conf0.entries[i]))
    => ImproperlyBuilt

C8_Witness ==
    /\ calls > 0 /\ SeqConf(conf0) /\ Len(conf0.entries) = 2
    /\ Clean(conf0.entries[1]) /\ WrongLength(conf0.entries[2])
    /\ ImproperlyBuilt

\* ---------------------------------------------------------------- names and docs
Replace(s, a, b) == [i \in 1..Len(s) |-> IF s[i] = a THEN b ELSE s[i]]

RECURSIVE LStrip(_, _)
LStrip(s, ch) == IF s # <<>> /\ Head(s) = ch THEN LStrip(Tail(s), ch) ELSE s

RECURSIVE RStrip(_, _)
RStrip(s, ch) ==
    IF s # <<>> /\ s[Len(s)] = ch THEN RStrip(SubSeq(s, 1, Len(s) - 1), ch) ELSE s

\* str.strip(ch)
Strip(s, ch) == RStrip(LStrip(s, ch), ch)

Digit(d) == <<"0","1","2","3","4","5","6","7","8","9">>[d + 1]

RECURSIVE NatToStr(_)
NatToStr(n) == IF n < 10 THEN <<Digit(n)>> ELSE NatToStr(n \div 10) \o <<Digit(n % 10)>>

\* '%s' % n for an integer
IntToStr(n) == IF n < 0 THEN <<"-">> \o NatToStr(0 - n) ELSE NatToStr(n)

UpperChar(c) ==
    CASE c = "g" -> "G" [] c = "e" -> "E" [] c = "t" -> "T"
      [] c = "p" -> "P" [] c = "o" -> "O" [] c = "s" -> "S"
      [] c = "d" -> "D" [] c = "l" -> "L"
      [] OTHER -> c

Upper(s) == [i \in 1..Len(s) |-> UpperChar(s[i])]

\* uuid4().hex: a value no earlier call has returned, here the text of the
\* number of the call
UuidHex(ctr) == NatToStr(ctr)

prepare_test_name(urlname, method, status, uuid) ==
    LET prepared_url == Replace(Strip(Replace(urlname, ":", "_"), "/"), "/", "_")
        prepared_method == Lower(method)
    IN <<"test_smoke_">> \o prepared_url \o <<"_">> \o prepared_method
          \o <<"_">> \o IntToStr(status) \o <<"_">> \o uuid

STATUS_CODE_TEXT(status) ==
    CASE status = 200 -> "OK" [] status = 404 -> "NOT FOUND" [] OTHER -> "UNKNOWN"

Doc(method, urlname, status, status_text, data) ==
    [method |-> method, urlname |-> urlname, status |-> status,
     status_text |-> status_text, data |-> data]

NoDoc == Doc(<<>>, <<>>, 0, "", VNone)

\* prepare_test_method_doc: exc is the exception of data.__name__ on a
\* callable that has no __name__
prepare_test_method_doc(method, urlname, status, status_text, data) ==
    IF Callable(data)
    THEN IF data.t = "func"
         THEN [exc |-> "none",
               doc |-> Doc(Upper(method), urlname, status, status_text, VStr(data.s))]
         ELSE [exc |-> "AttributeError", doc |-> NoDoc]
    ELSE [exc |-> "none",
          doc |-> Doc(Upper(method), urlname, status, status_text,
                      IF Truthy(data) THEN data ELSE VDict(<<>>))]

\* ---------------------------------------------------------------- class hook
FAIL_METHOD_NAME == <<"test_fail_cause_bad_configuration">>

\* traceback.format_exc() of the exception being handled
FormatExc(exc, lines) == [exc |-> exc, lines |-> lines]

NoStack == FormatExc("none", <<>>)

Method(name, kind, tc, doc, stack) ==
    [name |-> name, kind |-> kind, tc |-> tc, doc |-> doc, stack |-> stack]

generate_fail_test_method(exception_stacktrace) ==
    Method(<<>>, "fail", <<>>, NoDoc, exception_stacktrace)

\* fail_method(self): self.fail(exception_stacktrace)
fail_method(m) == [exc |-> "AssertionError", msg |-> m.stack]

\* dict.get(key, None)
Get(d, key) ==
    IF key \in Keys(d)
    THEN d.items[CHOOSE j \in 1..Len(d.items) : d.items[j][1] = key][2]
    ELSE VNone

\* setattr(cls, name, method)
SetAttr(methods, m) == {x \in methods : x.name # m.name} \cup {m}

RECURSIVE AttachFrom(_, _, _, _)
\* "for urlname, status, method, data in config" from entry i on, lines 296-313
AttachFrom(config, i, methods, ctr) ==
    IF i > Len(config) THEN [exc |-> "none", methods |-> methods, ctr |-> ctr]
    ELSE LET urlname == config[i][1].s
             status == config[i][2].n
             method == config[i][3].s
             data == config[i][4]
             request_data == Get(data, "request_data")
             status_text == STATUS_CODE_TEXT(status)
             test_method_name == prepare_test_name(urlname, method, status, UuidHex(ctr + 1))
             d == prepare_test_method_doc(method, urlname, status, status_text, request_data)
         IN IF d.exc # "none"
            THEN [exc |-> d.exc, methods |-> methods, ctr |-> ctr + 1]
            ELSE AttachFrom(config, i + 1,
                            SetAttr(methods, Method(test_method_name, "request",
                                                    config[i], d.doc, NoStack)),
                            ctr + 1)

\* the host framework's TestCase is class 0; every class of "classes" is an
\* instance of GenerateTestMethodsMeta
IsMetaInstance(b) == b >= 1

\* variant: every base counts as a parent
MutParentsAllBases(bases) == bases

\* parents = [b for b in bases if isinstance(b, GenerateTestMethodsMeta)]
Parents(bases) == SelectSeq(bases, IsMetaInstance)

\* variant: "except ImproperlyConfigured"
MutCatchesImproperlyConfigured(exc) == exc = "ImproperlyConfigured"

\* "except Exception" handles every exception prepare_configuration raises
Catches(exc) == exc # "none"

Class(bases, own, cfg, methods, ran, val, defined) ==
    [bases |-> bases, own |-> own, cfg |-> cfg, methods |-> methods,
     ran |-> ran, val |-> val, defined |-> defined]

Val(exc, lines, n) == [exc |-> exc, lines |-> lines, n |-> n]

NoVal == Val("notcalled", <<>>, 0)

None == Config("none", <<>>)

RECURSIVE OwnerOf(_, _)
\* the class of the MRO whose namespace holds TESTS_CONFIGURATION
OwnerOf(cs, c) == IF cs[c].own THEN c ELSE OwnerOf(cs, cs[c].bases[1])

\* GenerateTestMethodsMeta.__new__(mcs, name, bases, attrs), attrs declaring
\* TESTS_CONFIGURATION = cfg when own. Returns the classes, the uuid counter
\* and the exception that escapes the class statement; a class whose
\* statement raised stays in the list with defined = FALSE (its name is never
\* bound, so nothing derives from it).
MetaNew(cs, ctr, bases, own, cfg) ==
    LET new == Len(cs) + 1
        cls == Class(bases, own, IF own THEN cfg ELSE None, {}, FALSE, NoVal, TRUE)
        cs1 == Append(cs, cls)
    IN IF Parents(bases) = <<>>
       THEN [classes |-> cs1, ctr |-> ctr, exc |-> "none"]
       ELSE LET owner == OwnerOf(cs1, new)
                r == prepare_configuration(cs1[owner].cfg)
                cs2 == [cs1 EXCEPT ![owner].cfg = r.arg,
                                   ![new].ran = TRUE,
                                   ![new].val = Val(r.exc, r.lines, Len(r.confs))]
            IN IF r.exc # "none"
               THEN IF Catches(r.exc)
                    THEN LET f == generate_fail_test_method(FormatExc(r.exc, r.lines))
                             named == [f EXCEPT !.name = FAIL_METHOD_NAME]
                         IN [classes |-> [cs2 EXCEPT ![new].methods = SetAttr({}, named)],
                             ctr |-> ctr, exc |-> "none"]
                    ELSE [classes |-> [cs2 EXCEPT ![new].defined = FALSE],
                          ctr |-> ctr, exc |-> r.exc]
               ELSE LET a == AttachFrom(r.confs, 1, {}, ctr)
                    IN [classes |-> [cs2 EXCEPT ![new].methods = a.methods,
                                                ![new].defined = (a.exc = "none")],
                        ctr |-> a.ctr, exc |-> a.exc]

V3 == T3(VStr(URL), VInt(200), VStr(GET))
V4 == T4(VStr(URL), VInt(200), VStr(POST),
         VDict(<< <<"initialize", Fn>>, <<"request_data", Fn>>,
                  <<"user_credentials", DictN>> >>))
L3 == Entry("list", <<VStr(URL), VInt(404), VStr(GETU)>>)
VCall == T4(VStr(URL), VInt(200), VStr(GET), VDict(<< <<"request_data", VCallObj>> >>))

\* the configurations a class statement declares
HookConfigs ==
    { None,
      Config("list", <<>>),
      Config("list", <<V3>>),
      Config("tuple", <<V3, V3>>),
      Config("list", <<L3, V4>>),
      Config("list", <<V3, V4, V3>>),
      Config("list", <<VCall>>),
      Config("list", <<V3, VCall>>),
      Config("list", <<T3(VStr(URL), VInt(200), VStr(DELETE))>>),
      Config("list", <<T3(VStr(URL), VInt(200), VStr(DETETE))>>),
      Config("list", <<V3, Entry("int", <<>>)>>),
      Config("list", <<T4(VStr(URL), VInt(200), VStr(GET), VInt(5))>>),
      Config("list", <<L3, Entry("tuple", <<VStr(URL), VInt(200)>>)>>) }

\* the module is imported: SmokeTestCase is built from bases (TestCase,)
InitHook ==
    LET r == MetaNew(<<>>, 0, <<0>>, TRUE, None)
    IN /\ classes = r.classes
       /\ uuidCtr = r.ctr
       /\ lastDef = r.exc
       /\ outcome = NoOutcome
       /\ conf = None /\ conf0 = None /\ result = NotCalled /\ calls = 0
       /\ cur = <<>> /\ pc = "idle" /\ trace = <<>>

\* class X(parent): [TESTS_CONFIGURATION = cfg]
DefineClass(parent, own, cfg) ==
    /\ Len(classes) < 1 + MaxClasses
    /\ classes[parent].defined
    /\ \E r \in {MetaNew(classes, uuidCtr, <<parent>>, own, cfg)} :
          /\ classes' = r.classes
          /\ uuidCtr' = r.ctr
          /\ lastDef' = r.exc
    /\ UNCHANGED <<confVars, cur, pc, trace, outcome>>

\* the test runner calls the failsafe method of class c
InvokeFailMethod(c) ==
    /\ classes[c].defined
    /\ \E m \in classes[c].methods :
         /\ m.kind = "fail"
         /\ outcome' = [cls |-> c] @@ fail_method(m)
    /\ outcome.cls # c
    /\ UNCHANGED <<confVars, hookVars, cur, pc, trace>>

NextHook ==
    \/ \E parent \in 1..Len(classes), cfg \in HookConfigs : DefineClass(parent, TRUE, cfg)
    \/ \E parent \in 1..Len(classes) : DefineClass(parent, FALSE, None)
    \/ \E c \in 1..Len(classes) : InvokeFailMethod(c)

SpecHook == InitHook /\ [][NextHook]_vars

\* ---------------------------------------------------------------- properties of the class hook
Requests(c) == {m \in classes[c].methods : m.kind = "request"}

Failsafes(c) == {m \in classes[c].methods : m.kind = "fail"}

\* C1: a class the hook runs on with a valid configuration of N entries gets
\* exactly N generated test methods with pairwise distinct names and no
\* failsafe method.
C1_OneMethodPerEntry ==
    \A c \in 1..Len(classes) :
        (classes[c].ran /\ classes[c].val.exc = "none") =>
            /\ classes[c].defined
            /\ Cardinality(Requests(c)) = classes[c].val.n
            /\ Cardinality({m.name : m \in Requests(c)}) = classes[c].val.n
            /\ Failsafes(c) = {}

\* the failsafe of class c carries the validation error of class c
CarriesError(c, stack) ==
    stack.exc = classes[c].val.exc /\ stack.lines = classes[c].val.lines

\* C2: a class the hook runs on whose configuration fails validation is
\* constructed without an exception escaping, gets exactly one method, named
\* FAIL_METHOD_NAME, and no generated request method; calling that method
\* fails with a message holding the validation error.
C2_FailsafeOnly ==
    \A c \in 1..Len(classes) :
        (classes[c].ran /\ classes[c].val.exc \notin {"none", "notcalled"}) =>
            /\ classes[c].defined
            /\ (c = Len(classes) => lastDef = "none")
            /\ Cardinality(classes[c].methods) = 1
            /\ \A m \in classes[c].methods :
                  /\ m.kind = "fail" /\ m.name = FAIL_METHOD_NAME
                  /\ fail_method(m).exc = "AssertionError"
                  /\ CarriesError(c, fail_method(m).msg)
            /\ outcome.cls = c =>
                  outcome.exc = "AssertionError" /\ CarriesError(c, outcome.msg)

C2_Witness ==
    \E c \in 1..Len(classes) :
        /\ classes[c].ran /\ classes[c].val.exc = "TypeError"
        /\ outcome.cls = c /\ outcome.exc = "AssertionError"

\* C3 as stated: the hook attaches no method to the base class, and none to
\* a class derived from it that declares no configuration of its own.
C3_NothingWithoutConfiguration ==
    /\ classes[1].methods = {}
    /\ \A c \in 2..Len(classes) : ~classes[c].own => classes[c].methods = {}

\* C3 amended: the hook attaches no method to the base class; a class derived
\* directly from it that declares no configuration of its own gets exactly
\* one method, the failsafe, and no generated request method.
C3_FailsafeWithoutConfiguration ==
    /\ ~classes[1].ran /\ classes[1].methods = {}
    /\ \A c \in 2..Len(classes) :
         (~classes[c].own /\ classes[c].bases = <<1>>) =>
             /\ classes[c].ran
             /\ Requests(c) = {}
             /\ Cardinality(Failsafes(c)) = 1
             /\ \A m \in Failsafes(c) : m.name = FAIL_METHOD_NAME
             /\ classes[c].val.exc = "ImproperlyConfigured"

C3_Witness ==
    \E c \in 2..Len(classes) :
        /\ ~classes[c].own /\ classes[c].bases = <<1>>
        /\ Cardinality(classes[c].methods) = 1

\* ---------------------------------------------------------------- run of a generated test method
VAbsent == [t |-> "absent", s |-> <<>>, n |-> 0, items |-> <<>>]

Present(kv) == kv[2].t # "absent"

RunOptions ==
    { VDict(SelectSeq(<< <<"initialize", i>>, <<"url_kwargs", u>>,
                         <<"user_credentials", c>>, <<"request_data", d>> >>, Present)) :
        i \in {VAbsent, Fn}, u \in {VAbsent, DictN, Fn},
        c \in {VAbsent, VDict(<<>>), DictN, Fn}, d \in {VAbsent, DictN, Fn} }

RunEntries ==
    { T4(VStr(URL), VInt(200), VStr(m), o) : m \in {GETU, DETETE, DELETE}, o \in RunOptions }

\* the entries generate_test_method is called with: those of validated configurations
RunPool ==
    UNION { LET r == prepare_configuration(Config("list", <<e>>))
            IN IF r.exc = "none" THEN {r.confs[1]} ELSE {} : e \in RunEntries }

Step(step, res, code) == [step |-> step, res |-> res, code |-> code]

Finished(exc) == [cls |-> 0, exc |-> exc, msg |-> NoStack]

InitRun ==
    /\ cur \in RunPool
    /\ pc = "initialize"
    /\ trace = <<>>
    /\ outcome = NoOutcome
    /\ conf = None /\ conf0 = None /\ result = NotCalled /\ calls = 0
    /\ classes = <<>> /\ uuidCtr = 0 /\ lastDef = "none"

\* a call of a user callable or of the host framework returns or raises
CallResults == {"ok", "raised"}

Advance(step, res, code, next, exc) ==
    /\ trace' = Append(trace, Step(step, res, code))
    /\ pc' = next
    /\ outcome' = IF next = "done" THEN Finished(exc) ELSE outcome

\* if initialize: initialize(self)
StepInitialize ==
    /\ pc = "initialize"
    /\ LET initialize == Get(cur[4], "initialize")
       IN IF Truthy(initialize)
          THEN \E res \in CallResults :
                  Advance("initialize", res, 0,
                          IF res = "ok" THEN "url_kwargs" ELSE "done", "Exception")
          ELSE pc' = "url_kwargs" /\ UNCHANGED <<trace, outcome>>
    /\ UNCHANGED <<confVars, hookVars, cur>>

\* prepared_url_kwargs = url_kwargs(self) if callable else url_kwargs or {}
StepUrlKwargs ==
    /\ pc = "url_kwargs"
    /\ LET url_kwargs == Get(cur[4], "url_kwargs")
       IN \E res \in (IF Callable(url_kwargs) THEN CallResults ELSE {"ok"}) :
              Advance("url_kwargs", res, 0,
                      IF res = "ok" THEN "resolve_url" ELSE "done", "Exception")
    /\ UNCHANGED <<confVars, hookVars, cur>>

\* resolved_url = resolve_url(urlname, **prepared_url_kwargs)
StepResolveUrl ==
    /\ pc = "resolve_url"
    /\ \E res \in CallResults :
          Advance("resolve_url", res, 0, IF res = "ok" THEN "login" ELSE "done", "Exception")
    /\ UNCHANGED <<confVars, hookVars, cur>>

\* variant: the result of login is not asserted
MutLoginUnchecked(res) == IF res = "raised" THEN "done" ELSE "lookup"

\* self.assertTrue(logged_in, ...): the run goes on only after a login that
\* returned true
AfterLogin(res) == IF res = "ok" THEN "lookup" ELSE "done"

\* if user_credentials: resolve them, self.client.login(**credentials), assertTrue
StepLogin ==
    /\ pc = "login"
    /\ LET user_credentials == Get(cur[4], "user_credentials")
       IN IF Truthy(user_credentials)
          THEN \E res \in {"ok", "false", "raised"} :
                  Advance("login", res, 0, AfterLogin(res),
                          IF res = "false" THEN "AssertionError" ELSE "Exception")
          ELSE pc' = "lookup" /\ UNCHANGED <<trace, outcome>>
    /\ UNCHANGED <<confVars, hookVars, cur>>

\* function = getattr(self.client, method.lower())
StepLookup ==
    /\ pc = "lookup"
    /\ LET res == IF Lower(cur[3].s) \in ClientMethods THEN "ok" ELSE "raised"
       IN Advance("lookup", res, 0,
                  IF res = "ok" THEN "request_data" ELSE "done", "AttributeError")
    /\ UNCHANGED <<confVars, hookVars, cur>>

\* prepared_data = request_data(self) if callable else request_data or {}
StepRequestData ==
    /\ pc = "request_data"
    /\ LET request_data == Get(cur[4], "request_data")
       IN \E res \in (IF Callable(request_data) THEN CallResults ELSE {"ok"}) :
              Advance("request_data", res, 0,
                      IF res = "ok" THEN "dispatch" ELSE "done", "Exception")
    /\ UNCHANGED <<confVars, hookVars, cur>>

StatusCodes == {200, 404}

\* response = function(resolved_url, data=prepared_data)
StepDispatch ==
    /\ pc = "dispatch"
    /\ \/ \E code \in StatusCodes : Advance("dispatch", "ok", code, "assert_status", "none")
       \/ Advance("dispatch", "raised", 0, "done", "Exception")
    /\ UNCHANGED <<confVars, hookVars, cur>>

\* self.assertEqual(response.status_code, status)
StepAssertStatus ==
    /\ pc = "assert_status"
    /\ LET code == trace[Len(trace)].code
       IN IF code = cur[2].n
          THEN Advance("assert_status", "ok", code, "done", "none")
          ELSE Advance("assert_status", "false", code, "done", "AssertionError")
    /\ UNCHANGED <<confVars, hookVars, cur>>

NextRun ==
    \/ StepInitialize
    \/ StepUrlKwargs
    \/ StepResolveUrl
    \/ StepLogin
    \/ StepLookup
    \/ StepRequestData
    \/ StepDispatch
    \/ StepAssertStatus

SpecRun == InitRun /\ [][NextRun]_vars

\* ---------------------------------------------------------------- properties of a run
StepOrder ==
    << "initialize", "url_kwargs", "resolve_url", "login", "lookup",
       "request_data", "dispatch", "assert_status" >>

Pos(step) == CHOOSE i \in 1..Len(StepOrder) : StepOrder[i] = step

Done(step) == \E i \in 1..Len(trace) : trace[i].step = step

\* the steps this run has to make: the hook and the login only when given
Due(step) ==
    CASE step = "initialize" -> Truthy(Get(cur[4], "initialize"))
      [] step = "login" -> Truthy(Get(cur[4], "user_credentials"))
      [] OTHER -> TRUE

\* C9: the steps of a run happen in the order initialize, url-kwargs, URL
\* resolution, login, request-data, dispatch, status assertion, each at most
\* once; a step is made only after every earlier step that was due has
\* succeeded, so after a step that raised or a login that returned false the
\* request is never dispatched and the status is never asserted.
C9_StepsInOrder ==
    /\ \A i, j \in 1..Len(trace) :
          i < j => Pos(trace[i].step) < Pos(trace[j].step) /\ trace[i].res = "ok"
    /\ \A j \in 1..Len(trace) :
          /\ Due(trace[j].step)
          /\ \A p \in 1..(Pos(trace[j].step) - 1) : Due(StepOrder[p]) => Done(StepOrder[p])
    /\ (pc = "done" /\ outcome.exc = "none") => Done("assert_status")

C9_WitnessFullRun ==
    pc = "done" /\ Len(trace) = 8 /\ outcome.exc = "none"

\* C10: a method string passes validation exactly when its lower-cased form
\* is one of the request callables of the test client.
C10_ValidationMatchesClient ==
    (calls > 0 /\ SeqConf(conf0) /\ Len(conf0.entries) = 1
       /\ WellFormed(conf0.entries[1])
       /\ Problems(conf0.entries[1]) \subseteq
             {Msg(UNKNOWN_HTTP_METHOD_MSG, "", 0, {}, conf0.entries[1].elems[3])}
       /\ conf0.entries[1].elems[3].t = "str")
    => (result.exc = "none" <=> Lower(conf0.entries[1].elems[3].s) \in ClientMethods)

====
